---- MODULE Spec2Model ----
(***************************************************************************)
(* Model of the enum command line tool (package main, package aws,         *)
(* package ssh).  One invocation of the tool is one behaviour: a           *)
(* subcommand is chosen, the inventory is resolved through                 *)
(* FetchEC2InstanceData, and the dispatch loop of the subcommand walks the *)
(* resolved hosts, calling into package ssh.                               *)
(***************************************************************************)
EXTENDS Integers, Sequences, FiniteSets, TLC

(* ------------------------------ bounds --------------------------------- *)

\* largest number of instances an EC2 describe response lists
MaxHosts == 3

(* --------------------------- plain helpers ----------------------------- *)

\* strings of the program whose order matters are sequences of byte values
Unnamed == <<85, 110, 110, 97, 109, 101, 100>>
\* the display name "web"
NameWeb == <<119, 101, 98>>

RECURSIVE LessStr(_, _)
\* Go's < on strings: byte-wise lexicographic order
LessStr(a, b) ==
    IF b = <<>> THEN FALSE
    ELSE IF a = <<>> THEN TRUE
    ELSE IF Head(a) # Head(b) THEN Head(a) < Head(b)
    ELSE LessStr(Tail(a), Tail(b))

\* the error value nil
NoErr == [msg |-> "nil", stderr |-> ""]

Err(m) == [msg |-> m, stderr |-> ""]

\* the private address EC2 reports for the i-th described instance
AddrOf(i) == "10.0.0." \o ToString(i)

(* ------------------------------ package aws ---------------------------- *)

\* tag lists an instance can carry
TagLists == { <<>>, <<[Key |-> "Name", Value |-> NameWeb]>> }

RECURSIVE NameTag(_)
\* the value of the first tag whose key is "Name", else "Unnamed"
NameTag(tags) ==
    IF tags = <<>> THEN Unnamed
    ELSE IF Head(tags).Key = "Name" THEN Head(tags).Value
    ELSE NameTag(Tail(tags))

\* what EC2 can report about the i-th instance of a describe response
\* (a running instance may lack a private address; a stopped one keeps it)
Ec2Instances(i) ==
    { [InstanceId |-> i, Tags |-> t, State |-> "running",
       PrivateIpAddress |-> a] : t \in TagLists, a \in {"", AddrOf(i)} }
    \cup
    { [InstanceId |-> i, Tags |-> t, State |-> "stopped",
       PrivateIpAddress |-> AddrOf(i)] : t \in TagLists }

\* the describe responses: the instances of the cluster, in API order
Ec2Responses ==
    UNION { { r \in [1..n -> UNION { Ec2Instances(i) : i \in 1..n }] :
                \A i \in 1..n : r[i].InstanceId = i } : n \in 0..MaxHosts }

\* which cloud call fails, if any
ApiFailures == {"none", "session", "list", "describe", "ec2"}

RECURSIVE Collect_keepAll(_, _)
\* Collect that appends every instance, whatever onlyRunning says
Collect_keepAll(resp, onlyRunning) ==
    IF resp = <<>> THEN <<>>
    ELSE LET instance == Head(resp)
         IN <<[InstanceID |-> instance.InstanceId,
               Name       |-> NameTag(instance.Tags),
               State      |-> instance.State,
               PrivateIP  |-> instance.PrivateIpAddress]>>
              \o Collect_keepAll(Tail(resp), onlyRunning)

RECURSIVE Collect(_, _)
\* the append loop over the reservations of the describe response
Collect(resp, onlyRunning) ==
    IF resp = <<>> THEN <<>>
    ELSE LET instance == Head(resp)
             rest == Collect(Tail(resp), onlyRunning)
         IN IF onlyRunning /\ instance.State # "running"
            THEN rest
            ELSE <<[InstanceID |-> instance.InstanceId,
                    Name       |-> NameTag(instance.Tags),
                    State      |-> instance.State,
                    PrivateIP  |-> instance.PrivateIpAddress]>> \o rest

RECURSIVE InsertByName(_, _)
\* insertion step of the sort: x goes behind every element that is not
\* greater than it
InsertByName(sorted, x) ==
    IF sorted = <<>> THEN <<x>>
    ELSE IF LessStr(x.Name, sorted[Len(sorted)].Name)
         THEN InsertByName(SubSeq(sorted, 1, Len(sorted) - 1), x)
                 \o <<sorted[Len(sorted)]>>
         ELSE sorted \o <<x>>

RECURSIVE SortByName(_)
\* insertion sort by Name, as sort.Slice runs it on a short slice
SortByName(s) ==
    IF s = <<>> THEN <<>>
    ELSE InsertByName(SortByName(SubSeq(s, 1, Len(s) - 1)), s[Len(s)])

\* package sort: a slice of at most this many elements is sorted by insertion
MaxInsertion == 12

\* data.Swap(i, j)
Swap(d, i, j) == [d EXCEPT ![i] = d[j], ![j] = d[i]]

\* data.Less(i, j): instances[i].Name < instances[j].Name
Less(d, i, j) == LessStr(d[i].Name, d[j].Name)

\* no element is less than the one before it
IsSortedByName(d) == \A i \in 2..Len(d) : ~Less(d, i, i - 1)

\* the pivot sort.Slice chooses in a slice of 8 to 49 elements: the median
\* of the elements at one, two and three quarters (order2 applied three
\* times), and how many of the three comparisons found a pair out of order
ChoosePivot(d) ==
    LET q  == Len(d) \div 4
        i  == 1 + q
        j  == 1 + 2 * q
        k  == 1 + 3 * q
        ab == IF Less(d, j, i) THEN <<j, i, 1>> ELSE <<i, j, 0>>
        bc == IF Less(d, k, ab[2]) THEN <<k, ab[2], 1>> ELSE <<ab[2], k, 0>>
        am == IF Less(d, bc[1], ab[1]) THEN <<bc[1], ab[1], 1>>
              ELSE <<ab[1], bc[1], 0>>
    IN [pivot |-> am[2], swaps |-> ab[3] + bc[3] + am[3]]

RECURSIVE ScanUp(_, _, _)
\* partition, the pivot being at the front: for i <= j && Less(i, a) { i++ }
ScanUp(d, i, j) ==
    IF i <= j /\ Less(d, i, 1) THEN ScanUp(d, i + 1, j) ELSE i

RECURSIVE ScanDown(_, _, _)
\* partition: for i <= j && !Less(j, a) { j-- }
ScanDown(d, i, j) ==
    IF i <= j /\ ~Less(d, j, 1) THEN ScanDown(d, i, j - 1) ELSE j

RECURSIVE PartitionLoop(_, _, _)
\* partition: the two scans and the swap of the pair they stop at, until
\* they cross; then the pivot is swapped to where they crossed
PartitionLoop(d, i, j) ==
    LET up   == ScanUp(d, i, j)
        down == ScanDown(d, up, j)
    IN IF up > down
       THEN [data |-> Swap(d, down, 1), mid |-> down]
       ELSE PartitionLoop(Swap(d, up, down), up + 1, down - 1)

\* partition of the whole slice around the element at `pivot`
Partition(d, pivot) == PartitionLoop(Swap(d, 1, pivot), 2, Len(d))

\* sort.Slice(instances, Name less) on a slice of up to MaxInsertion + 1
\* elements: insertion sort on a short slice; on a longer one the pivot is
\* chosen, a slice found in order is left alone, and else it is partitioned
\* and the two parts, which are short, are sorted by insertion
SortSlice(s) ==
    IF Len(s) <= MaxInsertion THEN SortByName(s)
    ELSE LET c == ChoosePivot(s)
         IN IF c.swaps = 0 /\ IsSortedByName(s) THEN s
            ELSE LET p == Partition(s, c.pivot)
                 IN SortByName(SubSeq(p.data, 1, p.mid - 1))
                      \o <<p.data[p.mid]>>
                      \o SortByName(SubSeq(p.data, p.mid + 1, Len(s)))

\* FetchEC2InstanceData without the early return on an empty listing
FetchEC2InstanceData_noEmptyCheck(clusterName, fail, resp, onlyRunning) ==
    IF fail = "session"
    THEN [instances |-> <<>>, err |-> Err("failed to create session"),
          calls |-> <<>>]
    ELSE IF fail = "list"
    THEN [instances |-> <<>>,
          err |-> Err("error listing container instances"),
          calls |-> <<"ListContainerInstances">>]
    ELSE IF fail = "describe"
    THEN [instances |-> <<>>,
          err |-> Err("error describing container instances"),
          calls |-> <<"ListContainerInstances",
                      "DescribeContainerInstances">>]
    ELSE IF fail = "ec2"
    THEN [instances |-> <<>>,
          err |-> Err("error describing EC2 instances"),
          calls |-> <<"ListContainerInstances",
                      "DescribeContainerInstances", "DescribeInstances">>]
    ELSE [instances |-> SortSlice(Collect(resp, onlyRunning)),
          err |-> NoErr,
          calls |-> <<"ListContainerInstances",
                      "DescribeContainerInstances", "DescribeInstances">>]

\* FetchEC2InstanceData(clusterName, awsProfile, onlyRunning) against a
\* cloud that fails at `fail` and whose cluster holds `resp`
FetchEC2InstanceData(clusterName, fail, resp, onlyRunning) ==
    IF fail = "session"
    THEN [instances |-> <<>>, err |-> Err("failed to create session"),
          calls |-> <<>>]
    ELSE IF fail = "list"
    THEN [instances |-> <<>>,
          err |-> Err("error listing container instances"),
          calls |-> <<"ListContainerInstances">>]
    ELSE IF Len(resp) = 0
    THEN [instances |-> <<>>, err |-> NoErr,
          calls |-> <<"ListContainerInstances">>]
    ELSE IF fail = "describe"
    THEN [instances |-> <<>>,
          err |-> Err("error describing container instances"),
          calls |-> <<"ListContainerInstances",
                      "DescribeContainerInstances">>]
    ELSE IF fail = "ec2"
    THEN [instances |-> <<>>,
          err |-> Err("error describing EC2 instances"),
          calls |-> <<"ListContainerInstances",
                      "DescribeContainerInstances", "DescribeInstances">>]
    ELSE [instances |-> SortSlice(Collect(resp, onlyRunning)),
          err |-> NoErr,
          calls |-> <<"ListContainerInstances",
                      "DescribeContainerInstances", "DescribeInstances">>]

(* ------------------------------ package ssh ---------------------------- *)

\* Captured output is a sequence of lines, a line a sequence of the
\* tab-separated fields; the empty string is the empty sequence.
NoOutput == <<>>

\* the container id the operator asks for
ContainerID == "abc123"

\* how far a remote command gets: user lookup, agent socket, dial, session
\* open, a run failure that is not an exit status, a non-zero exit status,
\* or success
SetupFailures == {"user", "agent", "dial", "session"}

\* the outcomes of running a command whose complete output is `full`
RemoteOutcomes(full) ==
    { [kind |-> k, stdout |-> NoOutput, stderr |-> ""] : k \in SetupFailures }
    \cup { [kind |-> "run", stdout |-> so, stderr |-> ""] :
             so \in {NoOutput, full} }
    \cup { [kind |-> "exit", stdout |-> so, stderr |-> se] :
             so \in {NoOutput, full}, se \in {"", "docker: error"} }
    \cup { [kind |-> "ok", stdout |-> full, stderr |-> ""] }

\* SSHCommand that does not look at ignoreExitCode (as the earlier revision)
SSHCommand_noIgnore(o, ignoreExitCode) ==
    IF o.kind \in SetupFailures
    THEN [out |-> NoOutput, err |-> Err("setup failed: " \o o.kind)]
    ELSE IF o.kind \in {"run", "exit"}
    THEN [out |-> NoOutput,
          err |-> [msg |-> "failed to run command", stderr |-> o.stderr]]
    ELSE [out |-> o.stdout, err |-> NoErr]

\* SSHCommand that ignores every run error under the flag, not only an
\* *ssh.ExitError
SSHCommand_ignoreAll(o, ignoreExitCode) ==
    IF o.kind \in SetupFailures
    THEN [out |-> NoOutput, err |-> Err("setup failed: " \o o.kind)]
    ELSE IF o.kind \in {"run", "exit"}
    THEN IF ignoreExitCode
         THEN [out |-> o.stdout, err |-> NoErr]
         ELSE [out |-> NoOutput,
               err |-> [msg |-> "failed to run command",
                        stderr |-> o.stderr]]
    ELSE [out |-> o.stdout, err |-> NoErr]

\* SSHCommand(host, command, verbose, ignoreExitCode) when the remote side
\* behaves as outcome o
SSHCommand(o, ignoreExitCode) ==
    IF o.kind = "user"
    THEN [out |-> NoOutput, err |-> Err("unable to get current user")]
    ELSE IF o.kind = "agent"
    THEN [out |-> NoOutput, err |-> Err("failed to connect to SSH agent")]
    ELSE IF o.kind = "dial"
    THEN [out |-> NoOutput, err |-> Err("failed to dial SSH")]
    ELSE IF o.kind = "session"
    THEN [out |-> NoOutput, err |-> Err("failed to create SSH session")]
    ELSE IF o.kind \in {"run", "exit"}
    THEN IF o.kind = "exit" /\ ignoreExitCode
         THEN [out |-> o.stdout, err |-> NoErr]
         ELSE [out |-> NoOutput,
               err |-> [msg |-> "failed to run command",
                        stderr |-> o.stderr]]
    ELSE [out |-> o.stdout, err |-> NoErr]

\* SSHCommandStream(host, command): the output goes to the console
SSHCommandStream(o) ==
    IF o.kind = "user" THEN Err("unable to get current user")
    ELSE IF o.kind = "agent" THEN Err("failed to connect to SSH agent")
    ELSE IF o.kind = "dial" THEN Err("failed to dial")
    ELSE IF o.kind = "session" THEN Err("failed to create session")
    ELSE IF o.kind \in {"run", "exit"} THEN Err("failed to run command")
    ELSE NoErr

\* ssh.Dial succeeded when the remote side behaves as outcome o
Dialed(o) == o.kind \notin {"user", "agent", "dial"}

\* OpenAfter without the deferred conn.Close()
OpenAfter_noClose(o) == IF Dialed(o) THEN 1 ELSE 0

\* the connections a call of SSHCommand or SSHCommandStream leaves open when
\* it returns: one is dialed, and the conn.Close() deferred right after the
\* dial closes it
OpenAfter(o) == IF Dialed(o) THEN 1 - 1 ELSE 0

(* ------------------------------ package main --------------------------- *)

VARIABLES
    pc,          \* position of the invocation
    cmd,         \* the subcommand cobra dispatched to
    ClusterName, \* ActiveConfig.ClusterName
    described,   \* the instances the EC2 describe response listed
    instances,   \* the slice FetchEC2InstanceData returned
    present,     \* InstanceIDs of the hosts that run the container
    apiCalls,    \* the ECS and EC2 calls made so far
    arns,        \* how many container instances the listing returned
    fetchErr,    \* the error FetchEC2InstanceData returned
    idx,         \* position of the range loop in instances
    found,       \* the found flag of followContainerLogs and shell
    sshCalls,    \* the calls into package ssh made so far
    lastCall,    \* the latest SSHCommand / SSHCommandStream call and result
    printed,     \* what was written to standard output
    logLine,     \* the line the latest step wrote to standard error
    ret,         \* the error the subcommand function returned
    exitCode,    \* exit status of the process, -1 while it runs
    rev,         \* the revision of SSHInteractiveShell that is running
    command,     \* the command argument of SSHInteractiveShell
    termMode,    \* the mode of the local terminal
    oldState,    \* the terminal state term.MakeRaw returned
    defers,      \* the deferred calls of the running SSHInteractiveShell
    started,     \* what SSHInteractiveShell started on the remote side
    shellErr,    \* the error SSHInteractiveShell returned
    conns,       \* how many SSH connections are open
    errVar,      \* earlier revision: the variable err of SSHInteractiveShell
    waitErr,     \* earlier revision: what session.Wait() returned
    fwd,         \* earlier revision: position of the forwarding goroutine
    call,        \* direct call of a function of package ssh: its arguments
    result       \* direct call of a function of package ssh: its result

\* what the fetch of a subcommand sets
resolved == <<described, instances, present, apiCalls, arns, fetchErr>>

mainVars == <<pc, cmd, ClusterName, resolved, idx, found,
              sshCalls, lastCall, printed, logLine, ret, exitCode>>

\* package ssh, but for its connections
bridgeVars == <<rev, command, termMode, oldState, defers, started, shellErr,
               errVar, waitErr, fwd, call, result>>

sshVars == <<bridgeVars, conns>>

vars == <<mainVars, sshVars>>

\* modes the local terminal can be in when the tool starts
TermModes == {"cooked", "cbreak"}

\* the shell arguments given on the command line
ShellArgs == { <<>>, <<"/bin/bash">> }

\* shell(): "/bin/sh" without arguments, else strings.Join(args, " ")
FullCommand(args) == IF Len(args) = 0 THEN "/bin/sh" ELSE args[1]

Subcommands == {"list-ec2", "find", "inspect", "logs", "shell"}

\* values of the --cluster flag: its default and a cluster name
ClusterNames == {"", "staging"}

\* no call of SSHCommand or SSHCommandStream was made yet
NoneYet == [fn |-> "none", id |-> 0, role |-> "none",
            ignoreExitCode |-> FALSE, kind |-> "none", out |-> NoOutput,
            failed |-> FALSE]

\* no direct call is in progress
NoCall == [fn |-> "none", ignoreExitCode |-> FALSE,
           outcome |-> [kind |-> "none", stdout |-> NoOutput, stderr |-> ""]]

NoResult == [out |-> NoOutput, err |-> NoErr]

\* session.Wait() has not returned
NoWait == [msg |-> "not returned", stderr |-> ""]

NoLog == [msg |-> "", id |-> 0]

Init ==
    /\ pc = "start"
    /\ cmd = "none"
    /\ ClusterName = ""
    /\ described = <<>>
    /\ instances = <<>>
    /\ present = {}
    /\ apiCalls = <<>>
    /\ arns = -1
    /\ fetchErr = NoErr
    /\ idx = 0
    /\ found = FALSE
    /\ sshCalls = <<>>
    /\ lastCall = NoneYet
    /\ printed = <<>>
    /\ logLine = NoLog
    /\ ret = NoErr
    /\ exitCode = -1
    /\ rev = 1
    /\ command = ""
    /\ termMode = "cooked"
    /\ oldState = "none"
    /\ defers = {}
    /\ started = "none"
    /\ shellErr = NoErr
    /\ conns = 0
    /\ errVar = NoErr
    /\ waitErr = NoWait
    /\ fwd = "none"
    /\ call = NoCall
    /\ result = NoResult

\* rootCmd.Execute(): flag parsing and dispatch to a subcommand
Execute ==
    /\ pc = "start"
    /\ \E c \in Subcommands, n \in ClusterNames, args \in ShellArgs :
          /\ cmd' = c
          /\ ClusterName' = n
          /\ command' = IF c = "shell" THEN FullCommand(args) ELSE ""
    /\ pc' = "fetch"
    /\ UNCHANGED <<resolved, idx, found, sshCalls,
                   lastCall, printed, ret, exitCode>>
    /\ logLine' = NoLog
    /\ UNCHANGED <<rev, termMode, oldState, defers, started, shellErr,
                   conns,
                   errVar, waitErr, fwd, call, result>>

\* the hosts of a resolved list that can run the container
Reachable(list) ==
    { list[i].InstanceID : i \in { j \in 1..Len(list) :
                                     list[j].PrivateIP # "" /\
                                     list[j].State = "running" } }

\* the start of find, inspectContainer, followContainerLogs and shell:
\* FetchEC2InstanceData(..., true); on an error the function gives up with
\* the line `logged`, and the process exits with status `status`
FetchRunning(wrapped, logged, status) ==
    \E fail \in ApiFailures, resp \in Ec2Responses :
      LET r == FetchEC2InstanceData(ClusterName, fail, resp, TRUE)
      IN /\ apiCalls' = r.calls
         /\ arns' = IF fail \in {"session", "list"} THEN -1 ELSE Len(resp)
         /\ fetchErr' = r.err
         /\ described' = IF fail = "none" THEN resp ELSE <<>>
         /\ instances' = r.instances
         /\ IF r.err # NoErr
            THEN /\ present' = {}
                 /\ ret' = IF wrapped
                           THEN Err("error fetching EC2 instance data")
                           ELSE NoErr
                 /\ logLine' = [msg |-> logged, id |-> 0]
                 /\ exitCode' = status
                 /\ pc' = "done"
                 /\ idx' = idx
            ELSE /\ \E p \in SUBSET Reachable(r.instances) : present' = p
                 /\ UNCHANGED <<ret, exitCode>>
                 /\ logLine' = NoLog
                 /\ pc' = "loop"
                 /\ idx' = 1

\* one call into package ssh, as recorded
Called(fn, instance, role) ==
    Append(sshCalls, [fn |-> fn, id |-> instance.InstanceID,
                      addr |-> instance.PrivateIP, role |-> role])

\* the latest SSHCommand / SSHCommandStream call and what it returned
Returned(fn, instance, role, ignoreExitCode, o, out, e) ==
    [fn |-> fn, id |-> instance.InstanceID, role |-> role,
     ignoreExitCode |-> ignoreExitCode,
     kind |-> IF o.kind \in SetupFailures THEN "setup" ELSE o.kind,
     out |-> out, failed |-> (e # NoErr)]

\* output of `docker ps --filter id=... --format {{.ID}}` on a host
ProbeOutput(instance) ==
    IF instance.InstanceID \in present THEN << <<ContainerID>> >>
    ELSE NoOutput

\* output of `docker ps --format ...` (piped through grep) on a host: one
\* row of four fields for the container
PsOutput(instance) ==
    IF instance.InstanceID \in present
    THEN << <<"name", ContainerID, "Up", "2 hours">> >>
    ELSE NoOutput

\* what the remote command of find can write to standard output: the rows
\* of docker ps, alone or followed by a line that is not a row (text that
\* the login shell or sudo of the host writes)
PsOutputs(instance) ==
    { PsOutput(instance), PsOutput(instance) \o << <<"Last login">> >> }

\* output of `docker inspect` of a container
InspectOutput == << <<"[json]">> >>

\* listEC2Instances(): resolve unfiltered and print the table
listEC2Instances ==
    /\ UNCHANGED sshVars
    /\ pc = "fetch" /\ cmd = "list-ec2"
    /\ \E fail \in ApiFailures, resp \in Ec2Responses :
         LET r == FetchEC2InstanceData(ClusterName, fail, resp, FALSE)
         IN /\ apiCalls' = r.calls
            /\ arns' = IF fail \in {"session", "list"} THEN -1
                       ELSE Len(resp)
            /\ fetchErr' = r.err
            /\ described' = IF fail = "none" THEN resp ELSE <<>>
            /\ instances' = r.instances
            /\ IF r.err # NoErr
               THEN /\ ret' = Err("error fetching EC2 instance data")
                    /\ logLine' = [msg |-> "Error listing EC2 instances",
                                   id |-> 0]
                    /\ printed' = printed
               ELSE IF Len(r.instances) = 0
               THEN /\ ret' = NoErr
                    /\ logLine' = [msg |-> "No EC2 instances found", id |-> 0]
                    /\ printed' = printed
               ELSE /\ ret' = NoErr
                    /\ logLine' = NoLog
                    /\ printed' = printed \o
                         [i \in 1..Len(r.instances) |->
                            [text |-> "instance",
                             name |-> r.instances[i].Name,
                             id |-> r.instances[i].InstanceID]]
    /\ pc' = "done"
    /\ exitCode' = 0
    /\ UNCHANGED <<cmd, ClusterName, present, idx, found, sshCalls, lastCall>>

\* find(searchTerm): the fetch and the table header
find_fetch ==
    /\ UNCHANGED sshVars
    /\ pc = "fetch" /\ cmd = "find"
    /\ FetchRunning(FALSE, "Error fetching instances", 1)
    /\ printed' = IF pc' = "done" THEN printed
                  ELSE Append(printed, [text |-> "header", name |-> <<>>,
                                        id |-> 0])
    /\ UNCHANGED <<cmd, ClusterName, found, sshCalls, lastCall>>

RECURSIVE Rows_everyLine(_, _)
\* Rows without the test for four fields: a row for every non-empty line
Rows_everyLine(lines, instance) ==
    IF lines = <<>> THEN <<>>
    ELSE LET parts == Head(lines)
         IN (IF parts # <<"">>
             THEN <<[text |-> IF Len(parts) >= 2 THEN parts[2] ELSE "",
                     name |-> instance.Name,
                     id |-> instance.InstanceID]>>
             ELSE <<>>) \o Rows_everyLine(Tail(lines), instance)

RECURSIVE Rows(_, _)
\* the rows find prints for the lines of one host's output
Rows(lines, instance) ==
    IF lines = <<>> THEN <<>>
    ELSE LET parts == Head(lines)
         IN (IF parts # <<"">> /\ Len(parts) >= 4
             THEN <<[text |-> parts[2], name |-> instance.Name,
                     id |-> instance.InstanceID]>>
             ELSE <<>>) \o Rows(Tail(lines), instance)

\* strings.Split(output, "\n"): the lines and what follows the last newline
SplitLines(output) == output \o << <<"">> >>

\* find_host without the skip of a host that has no private address
find_host_noSkip ==
    /\ UNCHANGED bridgeVars
    /\ pc = "loop" /\ cmd = "find" /\ idx <= Len(instances)
    /\ LET instance == instances[idx]
       IN IF FALSE
          THEN /\ UNCHANGED <<sshCalls, lastCall, printed, conns>>
               /\ logLine' = NoLog
          ELSE \E full \in PsOutputs(instance) :
               \E o \in RemoteOutcomes(full) :
                 LET r == SSHCommand(o, TRUE)
                 IN /\ sshCalls' = Called("SSHCommand", instance, "probe")
                    /\ conns' = conns + OpenAfter(o)
                    /\ lastCall' = Returned("SSHCommand", instance, "probe",
                                            TRUE, o, r.out, r.err)
                    /\ IF r.err # NoErr
                       THEN /\ logLine' = [msg |-> "Error executing command",
                                           id |-> instance.InstanceID]
                            /\ printed' = printed
                       ELSE /\ logLine' = NoLog
                            /\ printed' = printed \o
                                 Rows(SplitLines(r.out), instance)
    /\ idx' = idx + 1
    /\ pc' = "loop"
    /\ UNCHANGED <<cmd, ClusterName, resolved, found,
                   ret, exitCode>>

\* find: one iteration of the range loop
find_host ==
    /\ UNCHANGED bridgeVars
    /\ pc = "loop" /\ cmd = "find" /\ idx <= Len(instances)
    /\ LET instance == instances[idx]
       IN IF instance.PrivateIP = ""
          THEN /\ UNCHANGED <<sshCalls, lastCall, printed, conns>>
               /\ logLine' = NoLog
          ELSE \E full \in PsOutputs(instance) :
               \E o \in RemoteOutcomes(full) :
                 LET r == SSHCommand(o, TRUE)
                 IN /\ sshCalls' = Called("SSHCommand", instance, "probe")
                    /\ conns' = conns + OpenAfter(o)
                    /\ lastCall' = Returned("SSHCommand", instance, "probe",
                                            TRUE, o, r.out, r.err)
                    /\ IF r.err # NoErr
                       THEN /\ logLine' = [msg |-> "Error executing command",
                                           id |-> instance.InstanceID]
                            /\ printed' = printed
                       ELSE /\ logLine' = NoLog
                            /\ printed' = printed \o
                                 Rows(SplitLines(r.out), instance)
    /\ idx' = idx + 1
    /\ pc' = "loop"
    /\ UNCHANGED <<cmd, ClusterName, resolved, found,
                   ret, exitCode>>

\* find: the range loop is exhausted and find returns
find_return ==
    /\ UNCHANGED sshVars
    /\ pc = "loop" /\ cmd = "find" /\ idx > Len(instances)
    /\ pc' = "done"
    /\ exitCode' = 0
    /\ UNCHANGED <<cmd, ClusterName, resolved, idx,
                   found, sshCalls, lastCall, printed, ret>>
    /\ logLine' = NoLog

\* Probe that leaves the loop when the probe of a host returns an error
Probe_abortOnError(errLine) ==
    /\ pc = "loop" /\ idx <= Len(instances)
    /\ LET instance == instances[idx]
       IN IF instance.PrivateIP = ""
          THEN /\ idx' = idx + 1
               /\ pc' = "loop"
               /\ UNCHANGED <<sshCalls, lastCall, conns>>
               /\ logLine' = NoLog
          ELSE \E o \in RemoteOutcomes(ProbeOutput(instance)) :
                 LET r == SSHCommand(o, FALSE)
                 IN /\ sshCalls' = Called("SSHCommand", instance, "probe")
                    /\ conns' = conns + OpenAfter(o)
                    /\ lastCall' = Returned("SSHCommand", instance, "probe",
                                            FALSE, o, r.out, r.err)
                    /\ IF r.err # NoErr
                       THEN /\ logLine' = [msg |-> errLine,
                                           id |-> instance.InstanceID]
                            /\ idx' = Len(instances) + 1
                            /\ pc' = "loop"
                       ELSE IF r.out = NoOutput
                       THEN /\ logLine' = NoLog
                            /\ idx' = idx + 1
                            /\ pc' = "loop"
                       ELSE /\ logLine' = NoLog
                            /\ idx' = idx
                            /\ pc' = "action"

\* Probe that takes a host for a match when its probe returned an error
Probe_matchOnError(errLine) ==
    /\ pc = "loop" /\ idx <= Len(instances)
    /\ LET instance == instances[idx]
       IN IF instance.PrivateIP = ""
          THEN /\ idx' = idx + 1
               /\ pc' = "loop"
               /\ UNCHANGED <<sshCalls, lastCall, conns>>
               /\ logLine' = NoLog
          ELSE \E o \in RemoteOutcomes(ProbeOutput(instance)) :
                 LET r == SSHCommand(o, FALSE)
                 IN /\ sshCalls' = Called("SSHCommand", instance, "probe")
                    /\ conns' = conns + OpenAfter(o)
                    /\ lastCall' = Returned("SSHCommand", instance, "probe",
                                            FALSE, o, r.out, r.err)
                    /\ IF r.err # NoErr
                       THEN /\ logLine' = [msg |-> errLine,
                                           id |-> instance.InstanceID]
                            /\ idx' = idx
                            /\ pc' = "action"
                       ELSE IF r.out = NoOutput
                       THEN /\ logLine' = NoLog
                            /\ idx' = idx + 1
                            /\ pc' = "loop"
                       ELSE /\ logLine' = NoLog
                            /\ idx' = idx
                            /\ pc' = "action"

\* Probe that runs the check command with ignoreExitCode set
Probe_ignoreExitCode(errLine) ==
    /\ pc = "loop" /\ idx <= Len(instances)
    /\ LET instance == instances[idx]
       IN IF instance.PrivateIP = ""
          THEN /\ idx' = idx + 1
               /\ pc' = "loop"
               /\ UNCHANGED <<sshCalls, lastCall, conns>>
               /\ logLine' = NoLog
          ELSE \E o \in RemoteOutcomes(ProbeOutput(instance)) :
                 LET r == SSHCommand(o, TRUE)
                 IN /\ sshCalls' = Called("SSHCommand", instance, "probe")
                    /\ conns' = conns + OpenAfter(o)
                    /\ lastCall' = Returned("SSHCommand", instance, "probe",
                                            TRUE, o, r.out, r.err)
                    /\ IF r.err # NoErr
                       THEN /\ logLine' = [msg |-> errLine,
                                           id |-> instance.InstanceID]
                            /\ idx' = idx + 1
                            /\ pc' = "loop"
                       ELSE IF r.out = NoOutput
                       THEN /\ logLine' = NoLog
                            /\ idx' = idx + 1
                            /\ pc' = "loop"
                       ELSE /\ logLine' = NoLog
                            /\ idx' = idx
                            /\ pc' = "action"

\* the probe that opens an iteration of inspectContainer,
\* followContainerLogs and shell: skip a host without address, run the
\* check command, and go on to the action when its output is not empty
Probe(errLine) ==
    /\ pc = "loop" /\ idx <= Len(instances)
    /\ LET instance == instances[idx]
       IN IF instance.PrivateIP = ""
          THEN /\ idx' = idx + 1
               /\ pc' = "loop"
               /\ UNCHANGED <<sshCalls, lastCall, conns>>
               /\ logLine' = NoLog
          ELSE \E o \in RemoteOutcomes(ProbeOutput(instance)) :
                 LET r == SSHCommand(o, FALSE)
                 IN /\ sshCalls' = Called("SSHCommand", instance, "probe")
                    /\ conns' = conns + OpenAfter(o)
                    /\ lastCall' = Returned("SSHCommand", instance, "probe",
                                            FALSE, o, r.out, r.err)
                    /\ IF r.err # NoErr
                       THEN /\ logLine' = [msg |-> errLine,
                                           id |-> instance.InstanceID]
                            /\ idx' = idx + 1
                            /\ pc' = "loop"
                       ELSE IF r.out = NoOutput
                       THEN /\ logLine' = NoLog
                            /\ idx' = idx + 1
                            /\ pc' = "loop"
                       ELSE /\ logLine' = NoLog
                            /\ idx' = idx
                            /\ pc' = "action"

\* inspectContainer(containerID): the fetch
inspectContainer_fetch ==
    /\ UNCHANGED sshVars
    /\ pc = "fetch" /\ cmd = "inspect"
    /\ FetchRunning(TRUE, "Error inspecting container", 0)
    /\ UNCHANGED <<cmd, ClusterName, found, sshCalls, lastCall, printed>>

\* inspectContainer: the probe of one host
inspectContainer_probe ==
    /\ UNCHANGED bridgeVars
    /\ cmd = "inspect"
    /\ Probe("Error checking container")
    /\ UNCHANGED <<cmd, ClusterName, resolved, found,
                   printed, ret, exitCode>>

\* inspectContainer_action that goes on with the next host after a
\* successful inspection
inspectContainer_action_noReturn ==
    /\ UNCHANGED bridgeVars
    /\ pc = "action" /\ cmd = "inspect"
    /\ LET instance == instances[idx]
       IN \E o \in RemoteOutcomes(InspectOutput) :
            LET r == SSHCommand(o, FALSE)
            IN /\ sshCalls' = Called("SSHCommand", instance, "action")
               /\ conns' = conns + OpenAfter(o)
               /\ lastCall' = Returned("SSHCommand", instance, "action",
                                       FALSE, o, r.out, r.err)
               /\ IF r.err # NoErr
                  THEN /\ logLine' = [msg |-> "Error executing inspect",
                                      id |-> instance.InstanceID]
                       /\ idx' = idx + 1
                       /\ pc' = "loop"
                       /\ UNCHANGED <<printed, exitCode>>
                  ELSE IF r.out # NoOutput
                  THEN /\ printed' = Append(printed,
                                        [text |-> "Inspect output",
                                         name |-> instance.Name,
                                         id |-> instance.InstanceID])
                       /\ pc' = "loop"
                       /\ exitCode' = exitCode
                       /\ idx' = idx + 1
                       /\ logLine' = NoLog
                  ELSE /\ idx' = idx + 1
                       /\ pc' = "loop"
                       /\ UNCHANGED <<printed, exitCode>>
                       /\ logLine' = NoLog
    /\ UNCHANGED <<cmd, ClusterName, resolved, found,
                   ret>>

\* inspectContainer: docker inspect on the host whose probe matched
inspectContainer_action ==
    /\ UNCHANGED bridgeVars
    /\ pc = "action" /\ cmd = "inspect"
    /\ LET instance == instances[idx]
       IN \E o \in RemoteOutcomes(InspectOutput) :
            LET r == SSHCommand(o, FALSE)
            IN /\ sshCalls' = Called("SSHCommand", instance, "action")
               /\ conns' = conns + OpenAfter(o)
               /\ lastCall' = Returned("SSHCommand", instance, "action",
                                       FALSE, o, r.out, r.err)
               /\ IF r.err # NoErr
                  THEN /\ logLine' = [msg |-> "Error executing inspect",
                                      id |-> instance.InstanceID]
                       /\ idx' = idx + 1
                       /\ pc' = "loop"
                       /\ UNCHANGED <<printed, exitCode>>
                  ELSE IF r.out # NoOutput
                  THEN /\ printed' = Append(printed,
                                        [text |-> "Inspect output",
                                         name |-> instance.Name,
                                         id |-> instance.InstanceID])
                       /\ pc' = "done"
                       /\ exitCode' = 0
                       /\ UNCHANGED <<idx>>
                       /\ logLine' = NoLog
                  ELSE /\ idx' = idx + 1
                       /\ pc' = "loop"
                       /\ UNCHANGED <<printed, exitCode>>
                       /\ logLine' = NoLog
    /\ UNCHANGED <<cmd, ClusterName, resolved, found,
                   ret>>

\* inspectContainer_notfound that returns without the message
inspectContainer_notfound_silent ==
    /\ UNCHANGED sshVars
    /\ pc = "loop" /\ cmd = "inspect" /\ idx > Len(instances)
    /\ printed' = printed
    /\ pc' = "done"
    /\ exitCode' = 0
    /\ UNCHANGED <<cmd, ClusterName, resolved, idx,
                   found, sshCalls, lastCall, ret>>
    /\ logLine' = NoLog

\* inspectContainer: no host was left, report and return nil
inspectContainer_notfound ==
    /\ UNCHANGED sshVars
    /\ pc = "loop" /\ cmd = "inspect" /\ idx > Len(instances)
    /\ printed' = Append(printed, [text |-> "Container not found",
                                   name |-> <<>>, id |-> 0])
    /\ pc' = "done"
    /\ exitCode' = 0
    /\ UNCHANGED <<cmd, ClusterName, resolved, idx,
                   found, sshCalls, lastCall, ret>>
    /\ logLine' = NoLog

\* followContainerLogs(containerID): the fetch
followContainerLogs_fetch ==
    /\ UNCHANGED sshVars
    /\ pc = "fetch" /\ cmd = "logs"
    /\ FetchRunning(TRUE, "Error following logs for container", 0)
    /\ UNCHANGED <<cmd, ClusterName, found, sshCalls, lastCall, printed>>

\* followContainerLogs: the probe of one host
followContainerLogs_probe ==
    /\ UNCHANGED bridgeVars
    /\ cmd = "logs"
    /\ Probe("Error checking container")
    /\ printed' = IF pc' = "action"
                  THEN Append(printed, [text |-> "Attempting to follow logs",
                                        name |-> instances[idx].Name,
                                        id |-> instances[idx].InstanceID])
                  ELSE printed
    /\ UNCHANGED <<cmd, ClusterName, resolved, found,
                   ret, exitCode>>

\* followContainerLogs_action without the break after a successful stream
followContainerLogs_action_noBreak ==
    /\ UNCHANGED bridgeVars
    /\ pc = "action" /\ cmd = "logs"
    /\ LET instance == instances[idx]
       IN \E o \in RemoteOutcomes(NoOutput) :
            LET logErr == SSHCommandStream(o)
            IN /\ sshCalls' = Called("SSHCommandStream", instance, "action")
               /\ conns' = conns + OpenAfter(o)
               /\ lastCall' = Returned("SSHCommandStream", instance,
                                       "action", FALSE, o, NoOutput, logErr)
               /\ IF logErr # NoErr
                  THEN /\ logLine' = [msg |-> "Error executing command",
                                      id |-> instance.InstanceID]
                       /\ idx' = idx + 1
                       /\ pc' = "loop"
                       /\ found' = found
                  ELSE /\ found' = TRUE
                       /\ pc' = "loop"
                       /\ idx' = idx + 1
                       /\ logLine' = NoLog
    /\ UNCHANGED <<cmd, ClusterName, resolved, printed,
                   ret, exitCode>>

\* followContainerLogs: docker logs -f on the host whose probe matched
followContainerLogs_action ==
    /\ UNCHANGED bridgeVars
    /\ pc = "action" /\ cmd = "logs"
    /\ LET instance == instances[idx]
       IN \E o \in RemoteOutcomes(NoOutput) :
            LET logErr == SSHCommandStream(o)
            IN /\ sshCalls' = Called("SSHCommandStream", instance, "action")
               /\ conns' = conns + OpenAfter(o)
               /\ lastCall' = Returned("SSHCommandStream", instance,
                                       "action", FALSE, o, NoOutput, logErr)
               /\ IF logErr # NoErr
                  THEN /\ logLine' = [msg |-> "Error executing command",
                                      id |-> instance.InstanceID]
                       /\ idx' = idx + 1
                       /\ pc' = "loop"
                       /\ found' = found
                  ELSE /\ found' = TRUE
                       /\ pc' = "end"
                       /\ UNCHANGED <<idx>>
                       /\ logLine' = NoLog
    /\ UNCHANGED <<cmd, ClusterName, resolved, printed,
                   ret, exitCode>>

\* AfterLoop with the test of found inverted
AfterLoop_inverted ==
    /\ \/ pc = "end"
       \/ pc = "loop" /\ idx > Len(instances)
    /\ printed' = IF found
                  THEN Append(printed,
                         [text |-> "Container not found or unable to connect",
                          name |-> <<>>, id |-> 0])
                  ELSE printed
    /\ pc' = "done"
    /\ exitCode' = 0
    /\ UNCHANGED <<cmd, ClusterName, resolved, idx,
                   found, sshCalls, lastCall, ret>>
    /\ logLine' = NoLog

\* the lines after the loop of followContainerLogs and shell
AfterLoop ==
    /\ \/ pc = "end"
       \/ pc = "loop" /\ idx > Len(instances)
    /\ printed' = IF ~found
                  THEN Append(printed,
                         [text |-> "Container not found or unable to connect",
                          name |-> <<>>, id |-> 0])
                  ELSE printed
    /\ pc' = "done"
    /\ exitCode' = 0
    /\ UNCHANGED <<cmd, ClusterName, resolved, idx,
                   found, sshCalls, lastCall, ret>>
    /\ logLine' = NoLog

\* followContainerLogs: after the loop
followContainerLogs_return ==
    /\ cmd = "logs"
    /\ AfterLoop
    /\ UNCHANGED sshVars

\* shell(containerID, args): the fetch
shell_fetch ==
    /\ pc = "fetch" /\ cmd = "shell"
    /\ FetchRunning(TRUE, "Failed to start interactive session", 1)
    /\ UNCHANGED <<cmd, ClusterName, found, sshCalls, lastCall, printed>>
    /\ UNCHANGED sshVars

\* shell: the probe of one host; a match calls SSHInteractiveShell
shell_probe ==
    /\ cmd = "shell"
    /\ Probe("Error executing command")
    /\ IF pc' = "action"
       THEN /\ printed' = Append(printed,
                            [text |-> "Starting shell session",
                             name |-> instances[idx].Name,
                             id |-> instances[idx].InstanceID])
            /\ rev' = 1
       ELSE UNCHANGED <<printed, rev>>
    /\ UNCHANGED <<cmd, ClusterName, resolved, found,
                   ret, exitCode>>
    /\ UNCHANGED <<command, termMode, oldState, defers, started, shellErr,
                   errVar, waitErr, fwd, call, result>>

(* ------------------- package ssh: SSHInteractiveShell ------------------ *)

\* a return of SSHInteractiveShell with error e: the deferred calls run
Return(e) ==
    /\ shellErr' = e
    /\ conns' = IF "conn.Close" \in defers THEN conns - 1 ELSE conns
    /\ termMode' = IF "term.Restore" \in defers THEN oldState ELSE termMode
    /\ defers' = {}
    /\ pc' = "returned"

\* both revisions: user lookup, agent socket, dial and session open
SSHInteractiveShell_open ==
    /\ pc = "action" /\ cmd \in {"shell", "call"}
    /\ sshCalls' = Called("SSHInteractiveShell", instances[idx], "action")
    /\ \E k \in SetupFailures \cup {"ok"} :
         IF k = "ok"
         THEN /\ defers' = {"sshAgent.Close", "conn.Close", "session.Close"}
              /\ pc' = IF rev = 1 THEN "tty" ELSE "pty0"
              /\ conns' = conns + 1
              /\ UNCHANGED <<shellErr, termMode>>
         ELSE /\ shellErr' = Err("failed to open: " \o k)
              /\ conns' = conns
              /\ defers' = {}
              /\ pc' = "returned"
              /\ UNCHANGED termMode
    /\ oldState' = "none"
    /\ started' = "none"
    /\ logLine' = NoLog
    /\ UNCHANGED <<cmd, ClusterName, resolved, idx,
                   found, lastCall, printed, ret, exitCode>>
    /\ UNCHANGED <<rev, command, errVar, waitErr, fwd, call, result>>

\* what the steps of SSHInteractiveShell leave alone
BridgeFrame ==
    UNCHANGED <<cmd, ClusterName, resolved, idx, found,
                sshCalls, lastCall, ret, exitCode, rev, command, call,
                result>>

\* later revision: term.IsTerminal, term.MakeRaw and the deferred Restore
SSHInteractiveShell_raw ==
    /\ pc = "tty" /\ rev = 1
    /\ \E isTerminal \in BOOLEAN, makeRawFails \in BOOLEAN :
         IF ~isTerminal
         THEN /\ ~makeRawFails
              /\ logLine' = [msg |-> "Warning: The input device is not a TTY",
                             id |-> 0]
              /\ pc' = "run"
              /\ UNCHANGED <<termMode, oldState, defers, shellErr, conns>>
         ELSE IF makeRawFails
         THEN /\ Return(Err("failed to make terminal raw"))
              /\ logLine' = NoLog
              /\ UNCHANGED oldState
         ELSE /\ oldState' = termMode
              /\ termMode' = "raw"
              /\ defers' = defers \cup {"term.Restore"}
              /\ pc' = "size"
              /\ logLine' = NoLog
              /\ UNCHANGED <<shellErr, conns>>
    /\ UNCHANGED <<printed, started, errVar, waitErr, fwd>>
    /\ BridgeFrame

\* SSHInteractiveShell_size when the Restore is deferred only after GetSize
SSHInteractiveShell_size_noRestore ==
    /\ pc = "size" /\ rev = 1
    /\ logLine' = NoLog
    /\ \E fails \in BOOLEAN :
         IF fails
         THEN /\ shellErr' = Err("failed to get terminal size")
              /\ conns' = conns - 1
              /\ defers' = {}
              /\ pc' = "returned"
              /\ UNCHANGED termMode
         ELSE /\ pc' = "pty"
              /\ UNCHANGED <<termMode, defers, shellErr, conns>>
    /\ UNCHANGED <<printed, oldState, started, errVar, waitErr, fwd>>
    /\ BridgeFrame

\* later revision: term.GetSize
SSHInteractiveShell_size ==
    /\ pc = "size" /\ rev = 1
    /\ logLine' = NoLog
    /\ \E fails \in BOOLEAN :
         IF fails
         THEN Return(Err("failed to get terminal size"))
         ELSE /\ pc' = "pty"
              /\ UNCHANGED <<termMode, defers, shellErr, conns>>
    /\ UNCHANGED <<printed, oldState, started, errVar, waitErr, fwd>>
    /\ BridgeFrame

\* later revision: session.RequestPty
SSHInteractiveShell_pty ==
    /\ pc = "pty" /\ rev = 1
    /\ logLine' = NoLog
    /\ \E fails \in BOOLEAN :
         IF fails
         THEN Return(Err("request for pseudo terminal failed"))
         ELSE /\ pc' = "run"
              /\ UNCHANGED <<termMode, defers, shellErr, conns>>
    /\ UNCHANGED <<printed, oldState, started, errVar, waitErr, fwd>>
    /\ BridgeFrame

\* fmt.Sprintf("sudo docker exec -it %s %s", containerID, command)
DockerExec(containerID, c) ==
    "sudo docker exec -it " \o containerID \o " " \o c

\* how a started remote command or shell ends: exit status zero, exit
\* status non-zero, or the connection drops
SessionEnds == {"ok", "exit", "run"}

\* later revision: session.Run(fullCommand), or session.Shell and Wait
SSHInteractiveShell_run ==
    /\ pc = "run" /\ rev = 1
    /\ logLine' = NoLog
    /\ LET fullCommand == DockerExec(ContainerID, command)
       IN IF fullCommand # ""
          THEN /\ started' = "run"
               /\ \E e \in SessionEnds :
                    Return(IF e = "ok" THEN NoErr
                           ELSE Err("failed to run command"))
          ELSE /\ started' = "shell"
               /\ \E shellFails \in BOOLEAN, e \in SessionEnds :
                    Return(IF shellFails THEN Err("failed to start shell")
                           ELSE IF e = "ok" THEN NoErr
                           ELSE Err("shell exited with error"))
    /\ UNCHANGED <<printed, oldState, errVar, waitErr, fwd>>
    /\ BridgeFrame

\* shell_session that leaves the loop after a failed session too (as the
\* earlier revision of shell)
shell_session_break ==
    /\ pc = "returned" /\ cmd = "shell"
    /\ IF shellErr # NoErr
       THEN /\ logLine' = [msg |-> "Error starting interactive shell session",
                           id |-> 0]
            /\ idx' = idx
            /\ pc' = "end"
            /\ found' = TRUE
       ELSE /\ found' = TRUE
            /\ pc' = "end"
            /\ logLine' = NoLog
            /\ idx' = idx
    /\ lastCall' = [fn |-> "SSHInteractiveShell",
                    id |-> instances[idx].InstanceID, role |-> "action",
                    ignoreExitCode |-> FALSE, kind |-> "session",
                    out |-> NoOutput, failed |-> (shellErr # NoErr)]
    /\ shellErr' = NoErr
    /\ UNCHANGED conns
    /\ oldState' = "none"
    /\ started' = "none"
    /\ UNCHANGED <<cmd, ClusterName, resolved, sshCalls, printed, ret,
                   exitCode>>
    /\ UNCHANGED <<rev, command, termMode, defers, errVar, waitErr, fwd, call,
                   result>>

\* shell: the result of SSHInteractiveShell
shell_session ==
    /\ pc = "returned" /\ cmd = "shell"
    /\ IF shellErr # NoErr
       THEN /\ logLine' = [msg |-> "Error starting interactive shell session",
                           id |-> 0]
            /\ idx' = idx + 1
            /\ pc' = "loop"
            /\ found' = found
       ELSE /\ found' = TRUE
            /\ pc' = "end"
            /\ logLine' = NoLog
            /\ idx' = idx
    /\ lastCall' = [fn |-> "SSHInteractiveShell",
                    id |-> instances[idx].InstanceID, role |-> "action",
                    ignoreExitCode |-> FALSE, kind |-> "session",
                    out |-> NoOutput, failed |-> (shellErr # NoErr)]
    /\ shellErr' = NoErr
    /\ UNCHANGED conns
    /\ oldState' = "none"
    /\ started' = "none"
    /\ UNCHANGED <<cmd, ClusterName, resolved, sshCalls, printed, ret,
                   exitCode>>
    /\ UNCHANGED <<rev, command, termMode, defers, errVar, waitErr, fwd, call,
                   result>>

\* shell: after the loop
shell_return ==
    /\ cmd = "shell"
    /\ AfterLoop
    /\ UNCHANGED sshVars

(* ------- package ssh, earlier revision: SSHInteractiveShell ------------ *)

\* earlier revision: session.RequestPty, before the terminal is touched
SSHInteractiveShell0_pty ==
    /\ pc = "pty0" /\ rev = 0
    /\ \E fails \in BOOLEAN :
         IF fails
         THEN Return(Err("request for pseudo terminal failed"))
         ELSE /\ pc' = "raw0"
              /\ UNCHANGED <<termMode, defers, shellErr, conns>>
    /\ logLine' = NoLog
    /\ UNCHANGED <<printed, oldState, started, errVar, waitErr, fwd>>
    /\ BridgeFrame

\* earlier revision: term.MakeRaw and the deferred Restore
SSHInteractiveShell0_raw ==
    /\ pc = "raw0" /\ rev = 0
    /\ \E fails \in BOOLEAN :
         IF fails
         THEN /\ Return(Err("failed to make terminal raw"))
              /\ UNCHANGED oldState
         ELSE /\ oldState' = termMode
              /\ termMode' = "raw"
              /\ defers' = defers \cup {"term.Restore"}
              /\ pc' = "pipe0"
              /\ UNCHANGED <<shellErr, conns>>
    /\ logLine' = NoLog
    /\ UNCHANGED <<printed, started, errVar, waitErr, fwd>>
    /\ BridgeFrame

\* earlier revision: session.StdinPipe
SSHInteractiveShell0_pipe ==
    /\ pc = "pipe0" /\ rev = 0
    /\ \E fails \in BOOLEAN :
         IF fails
         THEN Return(Err("failed to get stdin pipe"))
         ELSE /\ pc' = "shell0"
              /\ UNCHANGED <<termMode, defers, shellErr, conns>>
    /\ logLine' = NoLog
    /\ UNCHANGED <<printed, oldState, started, errVar, waitErr, fwd>>
    /\ BridgeFrame

\* earlier revision: session.Shell, then the go statement that starts the
\* forwarding of local stdin
SSHInteractiveShell0_shell ==
    /\ pc = "shell0" /\ rev = 0
    /\ \E fails \in BOOLEAN :
         IF fails
         THEN /\ Return(Err("failed to start shell"))
              /\ UNCHANGED <<started, fwd>>
         ELSE /\ started' = "shell"
              /\ fwd' = "copy"
              /\ pc' = "wait0"
              /\ UNCHANGED <<termMode, defers, shellErr, conns>>
    /\ logLine' = NoLog
    /\ UNCHANGED <<printed, oldState, errVar, waitErr>>
    /\ BridgeFrame

\* earlier revision: err = session.Wait()
SSHInteractiveShell0_wait ==
    /\ pc = "wait0" /\ rev = 0
    /\ \E e \in SessionEnds :
         /\ waitErr' = IF e = "ok" THEN NoErr ELSE Err("wait: " \o e)
         /\ errVar' = waitErr'
    /\ pc' = "check0"
    /\ logLine' = NoLog
    /\ UNCHANGED <<printed, termMode, oldState, defers, started, shellErr,
                   conns,
                   fwd>>
    /\ BridgeFrame

\* earlier revision: if err != nil after the wait, and the return
SSHInteractiveShell0_check ==
    /\ pc = "check0" /\ rev = 0
    /\ IF errVar # NoErr
       THEN Return(Err("error waiting for SSH session"))
       ELSE Return(NoErr)
    /\ logLine' = NoLog
    /\ UNCHANGED <<printed, oldState, started, errVar, waitErr, fwd>>
    /\ BridgeFrame

\* earlier revision, goroutine: _, err = io.Copy(stdinPipe, os.Stdin)
SSHInteractiveShell0_copy ==
    /\ fwd = "copy"
    /\ \E copyFails \in BOOLEAN :
         errVar' = IF copyFails THEN Err("copy") ELSE NoErr
    /\ fwd' = "copied"
    /\ UNCHANGED waitErr
    /\ logLine' = NoLog
    /\ UNCHANGED <<pc, printed, termMode, oldState, defers, started,
                   shellErr, conns>>
    /\ BridgeFrame

\* earlier revision, goroutine: report a forwarding error, then the
\* deferred stdinPipe.Close()
SSHInteractiveShell0_report ==
    /\ fwd = "copied"
    /\ logLine' = IF errVar # NoErr
                  THEN [msg |-> "Failed to forward local stdin", id |-> 0]
                  ELSE NoLog
    /\ fwd' = "closed"
    /\ UNCHANGED <<pc, printed, termMode, oldState, defers, started,
                   shellErr, conns, errVar, waitErr>>
    /\ BridgeFrame

(* ---------------- direct calls of the functions of package ssh --------- *)

\* the host the directly called functions connect to
SomeHost == [InstanceID |-> 1, Name |-> Unnamed, State |-> "running",
             PrivateIP |-> AddrOf(1)]

\* the remote behaviours SSHCommand and SSHCommandStream can meet
CallOutcomes ==
    RemoteOutcomes(NoOutput) \cup RemoteOutcomes(<< <<ContainerID>> >>)

\* the state before a direct call: the arguments are drawn, nothing ran
InitSSH ==
    /\ cmd = "call"
    /\ ClusterName = ""
    /\ described = <<>>
    /\ instances = <<SomeHost>>
    /\ present = {}
    /\ apiCalls = <<>>
    /\ arns = -1
    /\ fetchErr = NoErr
    /\ idx = 1
    /\ found = FALSE
    /\ sshCalls = <<>>
    /\ lastCall = NoneYet
    /\ printed = <<>>
    /\ logLine = NoLog
    /\ ret = NoErr
    /\ exitCode = -1
    /\ termMode \in TermModes
    /\ oldState = "none"
    /\ defers = {}
    /\ started = "none"
    /\ shellErr = NoErr
    /\ conns = 0
    /\ errVar = NoErr
    /\ waitErr = NoWait
    /\ fwd = "none"
    /\ result = NoResult
    /\ \/ /\ pc = "call"
          /\ rev = 1
          /\ command = ""
          /\ call \in [fn : {"SSHCommand"}, ignoreExitCode : BOOLEAN,
                       outcome : CallOutcomes]
                  \cup [fn : {"SSHCommandStream"}, ignoreExitCode : {FALSE},
                        outcome : CallOutcomes]
       \/ /\ pc = "action"
          /\ rev \in {0, 1}
          /\ command \in {"", "/bin/sh"}
          /\ call = [NoCall EXCEPT !.fn = "SSHInteractiveShell"]

\* a direct call of SSHCommand
Call_SSHCommand ==
    /\ pc = "call" /\ call.fn = "SSHCommand"
    /\ result' = SSHCommand(call.outcome, call.ignoreExitCode)
    /\ conns' = conns + OpenAfter(call.outcome)
    /\ pc' = "done"
    /\ UNCHANGED <<cmd, ClusterName, resolved, idx,
                   found, sshCalls, lastCall, printed, logLine, ret,
                   exitCode>>
    /\ UNCHANGED <<rev, command, termMode, oldState, defers, started,
                   shellErr, errVar, waitErr, fwd, call>>

\* a direct call of SSHCommandStream
Call_SSHCommandStream ==
    /\ pc = "call" /\ call.fn = "SSHCommandStream"
    /\ result' = [out |-> NoOutput, err |-> SSHCommandStream(call.outcome)]
    /\ conns' = conns + OpenAfter(call.outcome)
    /\ pc' = "done"
    /\ UNCHANGED <<cmd, ClusterName, resolved, idx,
                   found, sshCalls, lastCall, printed, logLine, ret,
                   exitCode>>
    /\ UNCHANGED <<rev, command, termMode, oldState, defers, started,
                   shellErr, errVar, waitErr, fwd, call>>

\* the directly called SSHInteractiveShell has returned to its caller
Call_returned ==
    /\ pc = "returned" /\ cmd = "call"
    /\ result' = [out |-> NoOutput, err |-> shellErr]
    /\ pc' = "done"
    /\ UNCHANGED <<cmd, ClusterName, resolved, idx,
                   found, sshCalls, lastCall, printed, logLine, ret,
                   exitCode>>
    /\ UNCHANGED <<rev, command, termMode, oldState, defers, started,
                   shellErr, conns, errVar, waitErr, fwd, call>>

NextSSH ==
    \/ Call_SSHCommand
    \/ Call_SSHCommandStream
    \/ SSHInteractiveShell_open
    \/ SSHInteractiveShell_raw
    \/ SSHInteractiveShell_size
    \/ SSHInteractiveShell_pty
    \/ SSHInteractiveShell_run
    \/ SSHInteractiveShell0_pty
    \/ SSHInteractiveShell0_raw
    \/ SSHInteractiveShell0_pipe
    \/ SSHInteractiveShell0_shell
    \/ SSHInteractiveShell0_wait
    \/ SSHInteractiveShell0_check
    \/ SSHInteractiveShell0_copy
    \/ SSHInteractiveShell0_report
    \/ Call_returned

\* the functions of package ssh, called directly
SpecSSH == InitSSH /\ [][NextSSH]_vars

(* ---------------- direct calls of FetchEC2InstanceData ------------------ *)

\* describe responses one instance longer than sort.Slice sorts by
\* insertion: running instances with an address, with or without a Name tag
LongResponses ==
    { [i \in 1..(MaxInsertion + 1) |->
         [InstanceId |-> i, Tags |-> t[i], State |-> "running",
          PrivateIpAddress |-> AddrOf(i)]] :
        t \in [1..(MaxInsertion + 1) -> TagLists] }

\* the state before a direct call of FetchEC2InstanceData: the arguments
\* and the behaviour of the cloud are drawn, nothing ran
InitFetch ==
    /\ pc = "call"
    /\ cmd = "call"
    /\ ClusterName = "staging"
    /\ described = <<>>
    /\ instances = <<>>
    /\ present = {}
    /\ apiCalls = <<>>
    /\ arns = -1
    /\ fetchErr = NoErr
    /\ idx = 0
    /\ found = FALSE
    /\ sshCalls = <<>>
    /\ lastCall = NoneYet
    /\ printed = <<>>
    /\ logLine = NoLog
    /\ ret = NoErr
    /\ exitCode = -1
    /\ rev = 1
    /\ command = ""
    /\ termMode = "cooked"
    /\ oldState = "none"
    /\ defers = {}
    /\ started = "none"
    /\ shellErr = NoErr
    /\ conns = 0
    /\ errVar = NoErr
    /\ waitErr = NoWait
    /\ fwd = "none"
    /\ result = NoResult
    /\ call \in [fn : {"FetchEC2InstanceData"}, onlyRunning : BOOLEAN,
                 fail : ApiFailures,
                 resp : Ec2Responses \cup LongResponses]

\* a direct call of FetchEC2InstanceData
Call_FetchEC2InstanceData ==
    /\ pc = "call" /\ call.fn = "FetchEC2InstanceData"
    /\ LET r == FetchEC2InstanceData(ClusterName, call.fail, call.resp,
                                     call.onlyRunning)
       IN /\ apiCalls' = r.calls
          /\ arns' = IF call.fail \in {"session", "list"} THEN -1
                     ELSE Len(call.resp)
          /\ fetchErr' = r.err
          /\ described' = IF call.fail = "none" THEN call.resp ELSE <<>>
          /\ instances' = r.instances
    /\ pc' = "done"
    /\ UNCHANGED <<cmd, ClusterName, present, idx, found, sshCalls, lastCall,
                   printed, logLine, ret, exitCode>>
    /\ UNCHANGED sshVars

NextFetch == Call_FetchEC2InstanceData

\* FetchEC2InstanceData, called directly
SpecFetch == InitFetch /\ [][NextFetch]_vars

Next ==
    \/ Execute
    \/ listEC2Instances
    \/ find_fetch
    \/ find_host
    \/ find_return
    \/ inspectContainer_fetch
    \/ inspectContainer_probe
    \/ inspectContainer_action
    \/ inspectContainer_notfound
    \/ followContainerLogs_fetch
    \/ followContainerLogs_probe
    \/ followContainerLogs_action
    \/ followContainerLogs_return
    \/ shell_fetch
    \/ shell_probe
    \/ SSHInteractiveShell_open
    \/ SSHInteractiveShell_raw
    \/ SSHInteractiveShell_size
    \/ SSHInteractiveShell_pty
    \/ SSHInteractiveShell_run
    \/ shell_session
    \/ shell_return

Spec == Init /\ [][Next]_vars


(* ------------------------------- claims -------------------------------- *)

SingleTarget == cmd \in {"inspect", "logs", "shell"}

\* InstanceIDs of the resolved hosts
Ids == { instances[i].InstanceID : i \in 1..Len(instances) }

\* position of a host in resolver order
PosOf(id) == CHOOSE i \in 1..Len(instances) : instances[i].InstanceID = id

\* how often a host was probed (role "probe") or acted upon (role "action")
CallsOf(role, id) ==
    Cardinality({ k \in 1..Len(sshCalls) :
                    sshCalls[k].role = role /\ sshCalls[k].id = id })

\* the hosts the action of the subcommand was started against
ActedUpon ==
    { sshCalls[k].id : k \in { j \in 1..Len(sshCalls) :
                                 sshCalls[j].role = "action" } }

\* an action has completed without error (inspect: and printed its output)
Succeeded ==
    \/ found
    \/ \E k \in 1..Len(printed) : printed[k].text = "Inspect output"

NotFoundTexts == {"Container not found",
                  "Container not found or unable to connect"}

NotFoundLines ==
    Cardinality({ k \in 1..Len(printed) : printed[k].text \in NotFoundTexts })

\* C1 as stated: in inspect, logs and shell the action is started against
\* at most one host, whatever the probes and actions return.
C1_AtMostOneHostActedUpon ==
    SingleTarget => Cardinality(ActedUpon) <= 1

\* C1 amended: no host is acted upon twice, and once an action has
\* completed without error no further probe or action is started (a second
\* host is acted upon only after the action on the first one failed).
C1_NothingAfterSuccess ==
    [][ SingleTarget =>
          /\ \A id \in Ids : CallsOf("action", id)' <= 1
          /\ Succeeded => (sshCalls' = sshCalls /\ Succeeded') ]_vars

C1_SecondHostActedUpon ==
    SingleTarget /\ pc = "done" /\ Cardinality(ActedUpon) = 2 /\ Succeeded

\* C2 as stated: with the container on exactly one host, the action runs
\* on exactly that host, the hosts before it are probed at most once and
\* the hosts after it are not probed.
C2_ActsOnExactlyThatHost ==
    (SingleTarget /\ pc = "done" /\ Cardinality(present) = 1) =>
       LET h == CHOOSE x \in present : TRUE
       IN /\ ActedUpon = {h}
          /\ CallsOf("action", h) = 1
          /\ \A i \in 1..Len(instances) :
               /\ i < PosOf(h) =>
                    CallsOf("probe", instances[i].InstanceID) <= 1
               /\ i > PosOf(h) =>
                    CallsOf("probe", instances[i].InstanceID) = 0

\* C2 amended: with the container on exactly one host, no other host is
\* acted upon and no host is probed or acted upon twice; when the action on
\* that host completes without error it ran exactly once and no host after
\* it was probed; when it does not (its probe or its action failed) the
\* scan reaches the end with every host that has an address probed once.
C2_OnlyThatHostUnlessFailure ==
    (SingleTarget /\ Cardinality(present) = 1) =>
       LET h == CHOOSE x \in present : TRUE
       IN /\ ActedUpon \subseteq {h}
          /\ \A g \in Ids : /\ CallsOf("probe", g) <= 1
                            /\ CallsOf("action", g) <= 1
          /\ Succeeded =>
               /\ CallsOf("action", h) = 1
               /\ \A i \in 1..Len(instances) :
                    i > PosOf(h) =>
                       CallsOf("probe", instances[i].InstanceID) = 0
          /\ (pc = "done" /\ ~Succeeded) =>
               \A i \in 1..Len(instances) :
                  instances[i].PrivateIP # "" =>
                     CallsOf("probe", instances[i].InstanceID) = 1

C2_MiddleHostMatched ==
    /\ SingleTarget /\ pc = "done" /\ Succeeded
    /\ Len(instances) = 3
    /\ present = {instances[2].InstanceID}
    /\ CallsOf("probe", instances[1].InstanceID) = 1
    /\ CallsOf("probe", instances[3].InstanceID) = 0

\* C3: with the container on no host, inspect, logs and shell probe every
\* host that has a private address exactly once, start no action, print
\* one "not found" line and return nil with exit status 0.
C3_NotFoundAfterOneProbeEach ==
    (SingleTarget /\ pc \notin {"start", "fetch"} /\ fetchErr = NoErr
       /\ present = {}) =>
       /\ ActedUpon = {}
       /\ \A g \in Ids : CallsOf("probe", g) <= 1
       /\ pc = "done" =>
            /\ \A i \in 1..Len(instances) :
                 CallsOf("probe", instances[i].InstanceID) =
                    IF instances[i].PrivateIP # "" THEN 1 ELSE 0
            /\ Len(sshCalls) =
                 Cardinality({ i \in 1..Len(instances) :
                                 instances[i].PrivateIP # "" })
            /\ NotFoundLines = 1
            /\ printed[Len(printed)].text \in NotFoundTexts
            /\ ret = NoErr
            /\ exitCode = 0

C3_ScannedAllNotFound ==
    /\ cmd = "shell" /\ pc = "done" /\ fetchErr = NoErr /\ present = {}
    /\ Len(instances) = 3
    /\ Len(sshCalls) = 2
    /\ lastCall.failed

\* C4: in find, inspect, logs and shell no call into package ssh is made
\* with the address of a host record whose private address is empty.
C4_NoCallWithoutAddress ==
    \A k \in 1..Len(sshCalls) : sshCalls[k].addr # ""

C4_AddresslessHostPassed ==
    /\ cmd = "find" /\ pc = "done"
    /\ Len(instances) = 2
    /\ instances[1].PrivateIP = ""
    /\ Len(sshCalls) = 1

C6_RawModeRestored ==
    pc \in {"returned", "done"} =>
       /\ termMode # "raw"
       /\ oldState # "none" => termMode = oldState

C6_RestoredAfterRemoteFailure ==
    /\ pc = "returned" /\ shellErr # NoErr /\ started # "none"
    /\ oldState = "cbreak"
    /\ termMode = "cbreak"

\* C7: SSHCommand with ignoreExitCode=true on a remote non-zero exit status
\* returns the captured stdout and a nil error.
C7_IgnoredExitReturnsOutput ==
    (pc = "done" /\ call.fn = "SSHCommand" /\ call.ignoreExitCode
       /\ call.outcome.kind = "exit") =>
       /\ result.err = NoErr
       /\ result.out = call.outcome.stdout

C7_NonZeroExitWithOutput ==
    /\ pc = "done" /\ call.fn = "SSHCommand" /\ call.ignoreExitCode
    /\ call.outcome.kind = "exit"
    /\ call.outcome.stdout # NoOutput
    /\ result.out # NoOutput

\* C8: ignoreExitCode matters only for a remote non-zero exit status: every
\* other failure returns an error and empty output under both values, and
\* with ignoreExitCode=false a non-zero exit returns empty output and an
\* error carrying the captured stderr.
C8_FlagOnlyAffectsExitStatus ==
    (pc = "done" /\ call.fn = "SSHCommand") =>
       LET o == call.outcome
       IN /\ o.kind # "exit" =>
               SSHCommand(o, TRUE) = SSHCommand(o, FALSE)
          /\ o.kind \in SetupFailures \cup {"run"} =>
               /\ result.err # NoErr
               /\ result.out = NoOutput
          /\ (o.kind = "exit" /\ ~call.ignoreExitCode) =>
               /\ result.err # NoErr
               /\ result.err.stderr = o.stderr
               /\ result.out = NoOutput

C8_UnignoredExitCarriesStderr ==
    /\ pc = "done" /\ call.fn = "SSHCommand" /\ ~call.ignoreExitCode
    /\ call.outcome.kind = "exit"
    /\ call.outcome.stdout # NoOutput
    /\ result.err.stderr = "docker: error"

\* C9: when the listing of container instances is empty,
\* FetchEC2InstanceData returns no instance and no error after the one
\* listing call, without a describe call to ECS or EC2.
C9_EmptyListingNoDescribe ==
    arns = 0 =>
       /\ instances = <<>>
       /\ fetchErr = NoErr
       /\ apiCalls = <<"ListContainerInstances">>
       /\ ret = NoErr

C9_EmptyClusterListed ==
    /\ arns = 0 /\ cmd = "list-ec2" /\ pc = "done"
    /\ logLine.msg = "No EC2 instances found"

\* C10 as stated: without a cluster name the resolver fails before any
\* cloud call, and no host is probed.
C10_EmptyClusterNameRejected ==
    (ClusterName = "" /\ pc \notin {"start", "fetch"}) =>
       /\ fetchErr # NoErr
       /\ apiCalls = <<>>
       /\ sshCalls = <<>>

\* C11 as stated: FetchEC2InstanceData returns the hosts in ascending
\* byte order of their names, and hosts with equal names stay in the order
\* in which the describe response listed them (InstanceId i is the i-th
\* instance of the response).
C11_SortedAndStable ==
    (pc = "done" /\ fetchErr = NoErr) =>
       \A i, j \in 1..Len(instances) :
          i < j =>
            /\ ~LessStr(instances[j].Name, instances[i].Name)
            /\ instances[i].Name = instances[j].Name =>
                  instances[i].InstanceID < instances[j].InstanceID

\* C12: list-ec2 gets every described instance from FetchEC2InstanceData;
\* find, inspect, logs and shell get exactly the described instances whose
\* state is "running", each once and with its own fields, so every call
\* into package ssh goes to a running instance.
C12_OnlyRunningWhenAsked ==
    (pc \notin {"start", "fetch"} /\ fetchErr = NoErr) =>
       LET wanted == { i \in 1..Len(described) :
                         cmd # "list-ec2" => described[i].State = "running" }
       IN /\ Len(instances) = Cardinality(wanted)
          /\ { instances[i].InstanceID : i \in 1..Len(instances) } = wanted
          /\ \A i \in 1..Len(instances) :
               LET d == described[instances[i].InstanceID]
               IN /\ instances[i].State = d.State
                  /\ instances[i].PrivateIP = d.PrivateIpAddress
                  /\ instances[i].Name = NameTag(d.Tags)
          /\ \A k \in 1..Len(sshCalls) :
               described[sshCalls[k].id].State = "running"

C12_StoppedHostNotProbed ==
    /\ cmd = "find" /\ pc = "done"
    /\ Len(described) = 3
    /\ described[2].State = "stopped"
    /\ Len(instances) = 2
    /\ Len(sshCalls) = 2

\* C13 as stated: find probes every host that has a private address
\* exactly once, prints a row for every non-empty line of a host's output,
\* and prints each row under the name of the host that produced it.
C13_EveryLinePrinted ==
    cmd = "find" =>
       /\ \A g \in Ids : CallsOf("probe", g) <= 1
       /\ pc = "done" =>
            \A i \in 1..Len(instances) :
               CallsOf("probe", instances[i].InstanceID) =
                  IF instances[i].PrivateIP # "" THEN 1 ELSE 0
       /\ \A k \in 1..Len(printed) :
            printed[k].id # 0 =>
               printed[k].name = instances[PosOf(printed[k].id)].Name
       /\ (lastCall.fn = "SSHCommand" /\ ~lastCall.failed) =>
            Cardinality({ k \in 1..Len(printed) :
                            printed[k].id = lastCall.id }) = Len(lastCall.out)

\* C13 amended: find never leaves its loop early: each iteration moves to
\* the next host, a host without address is passed without a call, every
\* other host is probed once, and the probe adds to the table exactly one
\* row, under the name of that host, for every line of the returned output
\* that has at least four tab-separated fields (other lines are dropped).
C13_RowsOfEveryHost ==
    [][ (cmd = "find" /\ pc = "loop") =>
          /\ idx <= Len(instances) =>
               LET instance == instances[idx]
                   rows == SelectSeq(lastCall'.out, LAMBDA l : Len(l) >= 4)
               IN /\ idx' = idx + 1 /\ pc' = "loop"
                  /\ IF instance.PrivateIP = ""
                     THEN sshCalls' = sshCalls /\ printed' = printed
                     ELSE /\ Len(sshCalls') = Len(sshCalls) + 1
                          /\ sshCalls'[Len(sshCalls')].id = instance.InstanceID
                          /\ lastCall'.id = instance.InstanceID
                          /\ printed' = printed \o
                                [k \in 1..Len(rows) |->
                                   [text |-> rows[k][2],
                                    name |-> instance.Name,
                                    id |-> instance.InstanceID]]
          /\ idx > Len(instances) =>
               /\ pc' = "done" /\ printed' = printed /\ sshCalls' = sshCalls
               /\ \A i \in 1..Len(instances) :
                    CallsOf("probe", instances[i].InstanceID) =
                       IF instances[i].PrivateIP # "" THEN 1 ELSE 0 ]_vars

C13_RowsAfterEarlierMatch ==
    /\ cmd = "find" /\ pc = "done"
    /\ Len(instances) = 3
    /\ present = Ids
    /\ Len(sshCalls) = 3
    /\ Len(printed) = 4
    /\ Len(lastCall.out) = 2
    /\ printed[2].id # printed[4].id

\* C14: in find and in the probe and action phases of inspect, logs and
\* shell, a call that returns an error for a host is logged and the loop
\* goes on with the next host, the subcommand neither returning nor
\* exiting; so an invocation that ends without a successful action has
\* probed every host that has a private address.
C14_HostErrorLoggedLoopContinues ==
    [][ /\ (cmd \in {"find", "inspect", "logs", "shell"}
              /\ lastCall' # lastCall /\ lastCall'.failed) =>
             /\ logLine'.msg # ""
             /\ pc' = "loop"
             /\ idx' = idx + 1
             /\ exitCode' = -1
             /\ ret' = NoErr
        /\ (cmd \in {"find", "inspect", "logs", "shell"}
              /\ pc # "done" /\ pc' = "done" /\ fetchErr' = NoErr
              /\ ~Succeeded') =>
             \A i \in 1..Len(instances) :
                CallsOf("probe", instances[i].InstanceID)' =
                   IF instances[i].PrivateIP # "" THEN 1 ELSE 0 ]_vars

C14_LaterHostServedAfterFailure ==
    /\ cmd = "inspect" /\ pc = "done" /\ Succeeded
    /\ Len(sshCalls) = 3
    /\ sshCalls[1].role = "probe" /\ sshCalls[1].id \in present
    /\ sshCalls[2].role = "probe" /\ sshCalls[2].id # sshCalls[1].id
    /\ sshCalls[3].role = "action" /\ sshCalls[3].id = sshCalls[2].id

\* C15 as stated: SSHInteractiveShell runs the remote command when its
\* command argument is not empty, and starts a plain remote shell
\* (session.Shell, then Wait) when it is empty.
C15_EmptyCommandStartsShell ==
    (pc \in {"returned", "done"} /\ started # "none") =>
       started = IF command = "" THEN "shell" ELSE "run"

\* C16 as stated: in the bridge that forwards local stdin in a goroutine,
\* under every interleaving the call returns only after session.Wait() has
\* returned, and it returns nil exactly when Wait returned nil: what the
\* forwarding goroutine meets does not change the returned value.
C16_ResultIsWaitOutcome ==
    (rev = 0 /\ started = "shell" /\ pc \in {"returned", "done"}) =>
       /\ waitErr # NoWait
       /\ (shellErr = NoErr) <=> (waitErr = NoErr)

\* C17: the inventory is resolved before the first call into package ssh
\* (all three cloud calls were made and FetchEC2InstanceData returned no
\* error), and connections are used one at a time: at most one is open at
\* any point, and none is open whenever the subcommand is outside
\* SSHInteractiveShell, so each call dials with no connection open.
C17_ResolvedFirstOneConnection ==
    /\ conns \in {0, 1}
    /\ (conns = 1) <=> ("conn.Close" \in defers)
    /\ pc \in {"start", "fetch", "loop", "action", "end", "returned", "done"}
          => conns = 0
    /\ sshCalls # <<>> =>
          /\ pc \notin {"start", "fetch"}
          /\ fetchErr = NoErr
          /\ Len(apiCalls) = 3

\* C17 witness: the second host's interactive session is running on its
\* one open connection, after a probe and a session on the first host and
\* the probe of the second
C17_SessionAfterEarlierCalls ==
    /\ cmd = "shell" /\ pc = "run" /\ conns = 1
    /\ Len(sshCalls) = 4
    /\ sshCalls[2].fn = "SSHInteractiveShell"
    /\ sshCalls[4].id # sshCalls[2].id

\* C18 (as stated): in inspect, logs and shell the latest probe ran with
\* ignoreExitCode set, and when the check command exited non-zero the call
\* returned no error and nothing was logged.
C18_ProbeIgnoresExitCode ==
    (cmd \in {"inspect", "logs", "shell"} /\ lastCall.role = "probe") =>
       /\ lastCall.ignoreExitCode
       /\ lastCall.kind = "exit" => (~lastCall.failed /\ logLine = NoLog)

\* the line a subcommand logs when the probe of a host returns an error
ProbeErrLine ==
    IF cmd = "shell" THEN "Error executing command"
    ELSE "Error checking container"

\* C18 (amended): in inspect, logs and shell the probe runs with
\* ignoreExitCode unset. A check command that exits non-zero makes the
\* call return an error, which is logged for that host before the loop
\* goes on with the next host; a check command that exits zero with empty
\* output makes the loop go on with nothing logged. Neither starts an
\* action or prints.
C18_ProbeExitLoggedHostSkipped ==
    [][ (cmd \in {"inspect", "logs", "shell"} /\ sshCalls' # sshCalls
           /\ lastCall'.role = "probe") =>
          /\ ~lastCall'.ignoreExitCode
          /\ lastCall'.kind = "exit" =>
                /\ lastCall'.failed
                /\ logLine' = [msg |-> ProbeErrLine,
                               id |-> instances[idx].InstanceID]
                /\ idx' = idx + 1 /\ pc' = "loop" /\ printed' = printed
          /\ (lastCall'.kind = "ok" /\ lastCall'.out = NoOutput) =>
                /\ ~lastCall'.failed
                /\ logLine' = NoLog
                /\ idx' = idx + 1 /\ pc' = "loop" /\ printed' = printed
      ]_vars

\* C18 witness: on a host that runs the container the check command
\* exited non-zero after writing the container id; the error is logged and
\* the loop stands at the next host
C18_ExitOnHostWithContainer ==
    /\ cmd = "logs" /\ pc = "loop" /\ idx = 2
    /\ lastCall.role = "probe" /\ lastCall.kind = "exit"
    /\ lastCall.id \in present
    /\ logLine = [msg |-> "Error checking container", id |-> lastCall.id]
    /\ printed = <<>>

\* C19: in inspect, logs and shell a probe that returned an error moves
\* the loop to the next host; an action is started only against the host
\* of the latest probe, and only when that probe returned no error and a
\* non-empty output; and the loop never goes back to an earlier host. So a
\* host whose probe returned an error is not acted upon in the invocation.
C19_FailedProbeNeverActedUpon ==
    [][ SingleTarget =>
          /\ idx' >= idx
          /\ (sshCalls' # sshCalls /\ lastCall'.role = "probe"
                /\ lastCall'.failed) =>
                /\ pc' = "loop" /\ idx' = idx + 1
                /\ lastCall'.id = instances[idx].InstanceID
                /\ lastCall'.out = NoOutput
          /\ (sshCalls' # sshCalls
                /\ sshCalls'[Len(sshCalls')].role = "action") =>
                /\ sshCalls'[Len(sshCalls')].id = instances[idx].InstanceID
                /\ lastCall.role = "probe"
                /\ lastCall.id = instances[idx].InstanceID
                /\ ~lastCall.failed
                /\ lastCall.out # NoOutput
      ]_vars

\* C19 witness: shell has ended its loop; the probe of the last host, which
\* runs the container, exited non-zero, and the only host acted upon is an
\* earlier one
C19_FailedProbeOnHostWithContainer ==
    /\ cmd = "shell" /\ pc = "loop" /\ idx = Len(instances) + 1
    /\ lastCall.role = "probe" /\ lastCall.failed /\ lastCall.kind = "exit"
    /\ lastCall.id \in present
    /\ ActedUpon # {}
    /\ lastCall.id \notin ActedUpon

\* the latest call into package ssh was an action that completed without
\* error (inspect: and with a non-empty output)
LastActionOk ==
    /\ lastCall.role = "action"
    /\ ~lastCall.failed
    /\ cmd = "inspect" => lastCall.out # NoOutput

\* C20: when inspect, logs or shell has ended after a successful
\* resolution, the function returned nil, and either the latest action
\* completed without error and no "not found" line was printed, or no
\* action completed without error and exactly one "not found" line was
\* printed.
C20_SuccessOrNotFoundOnce ==
    (SingleTarget /\ pc = "done" /\ fetchErr = NoErr) =>
       /\ ret = NoErr
       /\ exitCode = 0
       /\ LastActionOk <=> Succeeded
       /\ IF LastActionOk THEN NotFoundLines = 0 ELSE NotFoundLines = 1

\* C20 witness: inspect has ended; the inspection of the one matched host
\* failed, so no action completed and the "not found" line is printed
C20_NotFoundAfterFailedAction ==
    /\ cmd = "inspect" /\ pc = "done" /\ fetchErr = NoErr
    /\ ActedUpon # {}
    /\ ~Succeeded
    /\ NotFoundLines = 1

====
